---- MODULE Spec2Model ----
(***************************************************************************)
(* Model of mandala.py: one Streamlit session of the Mandala Art           *)
(* Generator.  A script run (main) is cut at its two network calls: the    *)
(* provider's images.generate and the requests.get of the held image URL.  *)
(* Strings typed by the user are sequences of chunks, a chunk being either *)
(* a whitespace character or a run of non-whitespace text; option labels   *)
(* are plain strings.  An optional value is <<>> (absent) or <<v>>.        *)
(***************************************************************************)
EXTENDS Integers, Sequences, FiniteSets, TLC

VARIABLES num_axes, style_preference, color_scheme, api_key, text_area,
          selected_example, session_state, pc, request, fetch_url, shown,
          msgs, phase, before, issued

widgets == <<num_axes, style_preference, color_scheme, api_key, text_area,
             selected_example>>
vars == <<num_axes, style_preference, color_scheme, api_key, text_area,
          selected_example, session_state, pc, request, fetch_url, shown,
          msgs, phase, before, issued>>

----------------------------------------------------------------------------
\* Bounds of the exploration.
MaxImages == 2        \* references the provider hands out in one session
MaxAxesTried == 1     \* slider positions tried from min_value upwards (plus the default)

\* Program constants.
min_value == 3
max_value == 12
default_axes == 8
full_circle == 360
status_ok == 200

\* The option lists of the sidebar and of the example picker.
style_options ==
  <<"Traditional Buddhist", "Modern geometric", "Floral and organic", "Celtic inspired",
    "Tibetan style", "Art Nouveau", "Minimalist", "Psychedelic">>
color_options ==
  <<"Vibrant rainbow", "Earth tones", "Monochromatic blue", "Golden and amber",
    "Purple and violet", "Black and white", "Pastel colors", "Jewel tones">>
example_inspirations ==
  <<<<"Ocean waves and seashells">>, <<"Mountain peaks and pine trees">>,
    <<"Butterfly wings and flowers">>, <<"Stars and cosmic energy">>,
    <<"Ancient wisdom and meditation">>, <<"Fire and transformation">>,
    <<"Seasons changing">>, <<"Inner peace and balance">>>>
AllStyles == {style_options[i] : i \in DOMAIN style_options}
AllColors == {color_options[i] : i \in DOMAIN color_options}

\* The options the user picks among in the session explored.
StylesTried == {style_options[1], style_options[2]}
ColorsTried == {color_options[1], color_options[2]}
ExamplesTried == {<<>>, example_inspirations[1]}

\* What the user types.
Whitespace == {" ", "\t", "\n"}
Texts == {<<>>, <<" ">>, <<"lotus">>}
Keys == {<<>>, <<" ">>, <<"sk-live">>}
SliderRange == min_value..max_value
AxesTried == {n \in SliderRange : n = default_axes \/ n < min_value + MaxAxesTried}
Timestamps == {"20240101_120000"}

----------------------------------------------------------------------------
\* Python helpers.
RECURSIVE lstrip(_)
lstrip(s) == IF s # <<>> /\ Head(s) \in Whitespace THEN lstrip(Tail(s)) ELSE s

RECURSIVE rstrip(_)
rstrip(s) ==
  IF s # <<>> /\ s[Len(s)] \in Whitespace THEN rstrip(SubSeq(s, 1, Len(s) - 1)) ELSE s

NoStrip(s) == s

strip(s) == rstrip(lstrip(s))

Truthy(s) == s # <<>>

\* str() of a non-negative int: its decimal digits.
RECURSIVE Digits(_)
Digits(n) == IF n < 10 THEN <<n>> ELSE Digits(n \div 10) \o <<n % 10>>

hasattr(state, field) == state[field] # <<>>

----------------------------------------------------------------------------
\* create_mandala_prompt: the placeholders of the f-string, in order.
RoundedDegrees(user_inspiration, style, color, axes) ==
  [inspiration |-> user_inspiration,
   fold        |-> Digits(axes),
   sections    |-> Digits(axes),
   degrees     |-> Digits((full_circle + axes \div 2) \div axes),
   style       |-> style,
   color       |-> color,
   way         |-> Digits(axes),
   style_fold  |-> Digits(axes)]

create_mandala_prompt(user_inspiration, style, color, axes) ==
  [inspiration |-> user_inspiration,
   fold        |-> Digits(axes),
   sections    |-> Digits(axes),
   degrees     |-> Digits(full_circle \div axes),
   style       |-> style,
   color       |-> color,
   way         |-> Digits(axes),
   style_fold  |-> Digits(axes)]

\* initialize_openai: the client, or None with the error shown.
initialize_openai(key, ctor_ok) ==
  IF Truthy(key)
  THEN IF ctor_ok
       THEN [client |-> <<[api_key |-> key]>>, errors |-> {}]
       ELSE [client |-> <<>>, errors |-> {"Invalid API Key"}]
  ELSE [client |-> <<>>, errors |-> {}]

\* generate_mandala: the call's arguments, and what it returns for the provider's answer.
GenerateCall(client, prompt) ==
  [client |-> client, model |-> "dall-e-3", prompt |-> prompt,
   size |-> "1024x1024", quality |-> "hd", n |-> 1]

GenerateOutcomes == {"ok", "authentication_error", "provider_error"}

generate_mandala(outcome, url) ==
  IF outcome = "ok"
  THEN [image_url |-> <<url>>, errors |-> {}]
  ELSE [image_url |-> <<>>, errors |-> {"Error generating image"}]

\* What requests.get can answer for a reference.
PngSignature == <<137, 80>>
ImageAt(url) == PngSignature \o <<url>>
Responses(image_url) ==
  IF image_url = <<>>
  THEN {[raised |-> TRUE, status_code |-> 0, content |-> <<>>]}
  ELSE {[raised |-> FALSE, status_code |-> status_ok, content |-> ImageAt(image_url[1])],
        [raised |-> FALSE, status_code |-> status_ok, content |-> <<>>],
        [raised |-> FALSE, status_code |-> status_ok, content |-> <<60, 33>>],
        [raised |-> FALSE, status_code |-> 403, content |-> <<60, 33>>],
        [raised |-> TRUE, status_code |-> 0, content |-> <<>>]}

download_image(response) ==
  IF response.raised
  THEN [bytes |-> <<>>, errors |-> {"Error downloading image"}]
  ELSE IF response.status_code = status_ok
       THEN [bytes |-> response.content, errors |-> {}]
       ELSE [bytes |-> <<>>, errors |-> {"Failed to download image"}]

\* base64.b64encode: sextets as alphabet indices, 64 for the '=' padding.
RECURSIVE b64encode(_)
b64encode(bytes) ==
  IF bytes = <<>> THEN <<>>
  ELSE IF Len(bytes) = 1
       THEN <<bytes[1] \div 4, (bytes[1] % 4) * 16, 64, 64>>
  ELSE IF Len(bytes) = 2
       THEN <<bytes[1] \div 4, (bytes[1] % 4) * 16 + bytes[2] \div 16,
              (bytes[2] % 16) * 4, 64>>
  ELSE <<bytes[1] \div 4, (bytes[1] % 4) * 16 + bytes[2] \div 16,
         (bytes[2] % 16) * 4 + bytes[3] \div 64, bytes[3] % 64>>
       \o b64encode(SubSeq(bytes, 4, Len(bytes)))

create_download_link(image_bytes, filename) ==
  [href |-> <<"data:image/png;base64,", b64encode(image_bytes)>>,
   download |-> filename]

\* Image.open succeeds on bytes that start an image file.
ImageOpens(image_bytes) ==
  /\ Len(image_bytes) >= Len(PngSignature)
  /\ SubSeq(image_bytes, 1, Len(PngSignature)) = PngSignature

----------------------------------------------------------------------------
\* st.session_state before anything is stored in it.
EmptySession ==
  [current_prompt |-> <<>>, current_image_url |-> <<>>,
   current_inspiration |-> <<>>, current_num_axes |-> <<>>]

\* The right column while a run is still drawing it.
Blank ==
  [placeholder |-> FALSE, image |-> <<>>, caption |-> <<>>, link |-> <<>>,
   details |-> <<>>]

\* The text the run works with: the picked example overrides the text area.
user_inspiration == IF Truthy(selected_example) THEN selected_example ELSE text_area

\* The locals of the run in progress.
Locals ==
  [api_key |-> api_key, user_inspiration |-> user_inspiration,
   style_preference |-> style_preference, color_scheme |-> color_scheme,
   num_axes |-> num_axes]

PromptFromKey(L) ==
  create_mandala_prompt(L.api_key, L.style_preference, L.color_scheme, L.num_axes)

PromptOf(L) ==
  create_mandala_prompt(L.user_inspiration, L.style_preference, L.color_scheme,
                        L.num_axes)

StorePrompt(state, prompt) == [state EXCEPT !.current_prompt = <<prompt>>]

StoreResult(state, L, image_url) ==
  [state EXCEPT !.current_image_url = image_url,
                !.current_inspiration = <<L.user_inspiration>>,
                !.current_num_axes = <<L.num_axes>>]

HeldPrompt(state) == hasattr(state, "current_prompt")

\* The test that opens the right column.
HeldResult(state) == hasattr(state, "current_image_url")

\* The image, its download link and the details panel.
Display(state, style, color, image_bytes, now) ==
  [placeholder |-> FALSE,
   image   |-> <<image_bytes>>,
   caption |-> state.current_inspiration,
   link    |-> <<create_download_link(image_bytes, <<"mandala_", now, ".png">>)>>,
   details |-> <<[inspiration |-> state.current_inspiration,
                  style       |-> style,
                  color       |-> color,
                  axes        |-> IF hasattr(state, "current_num_axes")
                                  THEN <<Digits(state.current_num_axes[1])>>
                                  ELSE <<>>,
                  prompt      |-> state.current_prompt]>>]

\* The rest of a run once the button block is over: the right column, up to
\* the download of the held reference.
EndRun(state, shown_msgs, ph, snapshot) ==
  /\ session_state' = state
  /\ msgs' = shown_msgs
  /\ phase' = ph
  /\ request' = <<>>
  /\ IF HeldResult(state)
     THEN /\ pc' = "fetching"
          /\ fetch_url' = state.current_image_url
          /\ shown' = Blank
          /\ before' = snapshot
     ELSE /\ pc' = "idle"
          /\ fetch_url' = <<>>
          /\ shown' = [Blank EXCEPT !.placeholder = TRUE]
          /\ before' = <<>>

Init ==
  /\ num_axes = default_axes
  /\ style_preference = style_options[1]
  /\ color_scheme = color_options[1]
  /\ api_key = <<>>
  /\ text_area = <<>>
  /\ selected_example = <<>>
  /\ session_state = EmptySession
  /\ pc = "idle"
  /\ request = <<>>
  /\ fetch_url = <<>>
  /\ shown = [Blank EXCEPT !.placeholder = TRUE]
  /\ msgs = {}
  /\ phase = "rerun"
  /\ before = <<>>
  /\ issued = 0

\* A widget edit reruns the script with the button not pressed.
Rerun == /\ pc = "idle"
         /\ UNCHANGED issued
         /\ EndRun(session_state, {}, "rerun", <<>>)

SetAxes ==
  \E n \in AxesTried \ {num_axes} :
    /\ num_axes' = n
    /\ UNCHANGED <<style_preference, color_scheme, api_key, text_area, selected_example>>
    /\ Rerun

SetStyle ==
  \E s \in StylesTried \ {style_preference} :
    /\ style_preference' = s
    /\ UNCHANGED <<num_axes, color_scheme, api_key, text_area, selected_example>>
    /\ Rerun

SetColor ==
  \E c \in ColorsTried \ {color_scheme} :
    /\ color_scheme' = c
    /\ UNCHANGED <<num_axes, style_preference, api_key, text_area, selected_example>>
    /\ Rerun

SetKey ==
  \E k \in Keys \ {api_key} :
    /\ api_key' = k
    /\ UNCHANGED <<num_axes, style_preference, color_scheme, text_area, selected_example>>
    /\ Rerun

SetText ==
  \E t \in Texts \ {text_area} :
    /\ text_area' = t
    /\ UNCHANGED <<num_axes, style_preference, color_scheme, api_key, selected_example>>
    /\ Rerun

SetExample ==
  \E e \in ExamplesTried \ {selected_example} :
    /\ selected_example' = e
    /\ UNCHANGED <<num_axes, style_preference, color_scheme, api_key, text_area>>
    /\ Rerun

\* The button: validation, the client, the prompt, up to the provider call.
Click ==
  /\ pc = "idle"
  /\ UNCHANGED <<widgets, issued>>
  /\ IF ~Truthy(strip(api_key))
     THEN EndRun(session_state, {"Please enter your OpenAI API Key"}, "invalid_key", <<>>)
     ELSE IF ~Truthy(strip(user_inspiration))
     THEN EndRun(session_state, {"Please enter your inspiration"}, "invalid_text", <<>>)
     ELSE \E ctor_ok \in BOOLEAN :
            LET made == initialize_openai(api_key, ctor_ok) IN
            IF Truthy(made.client)
            THEN LET prompt == PromptOf(Locals) IN
                 /\ session_state' = StorePrompt(session_state, prompt)
                 /\ request' = <<GenerateCall(made.client[1], prompt)>>
                 /\ pc' = "generating"
                 /\ phase' = "generating"
                 /\ before' = <<session_state>>
                 /\ msgs' = {}
                 /\ shown' = Blank
                 /\ fetch_url' = <<>>
            ELSE EndRun(session_state, made.errors, "client_failed", <<>>)

\* The provider answers.  On success the result is stored and st.rerun()
\* starts the script again; on failure the same run goes on to the right column.
ProviderReturns ==
  /\ pc = "generating"
  /\ UNCHANGED widgets
  /\ \E outcome \in GenerateOutcomes :
       /\ outcome = "ok" => issued < MaxImages
       /\ LET got == generate_mandala(outcome, issued + 1) IN
          IF Truthy(got.image_url)
          THEN /\ issued' = issued + 1
               /\ EndRun(StoreResult(session_state, Locals, got.image_url), {},
                         "generated", before)
          ELSE /\ issued' = issued
               /\ EndRun(session_state, got.errors, "generation_failed", before)

\* The download of the held reference answers, and the right column is drawn.
FetchReturns ==
  /\ pc = "fetching"
  /\ UNCHANGED <<widgets, session_state, issued, phase>>
  /\ \E response \in Responses(fetch_url), now \in Timestamps :
       LET got == download_image(response) IN
       IF Truthy(got.bytes)
       THEN IF ImageOpens(got.bytes)
            THEN /\ shown' = Display(session_state, style_preference, color_scheme,
                                     got.bytes, now)
                 /\ msgs' = msgs \cup got.errors
            ELSE /\ shown' = Blank
                 /\ msgs' = msgs \cup {"Error displaying image"}
       ELSE /\ shown' = Blank
            /\ msgs' = msgs \cup got.errors
  /\ pc' = "idle"
  /\ fetch_url' = <<>>
  /\ request' = <<>>
  /\ before' = <<>>

Next ==
  \/ SetAxes
  \/ SetStyle
  \/ SetColor
  \/ SetKey
  \/ SetText
  \/ SetExample
  \/ Click
  \/ ProviderReturns
  \/ FetchReturns

Spec == Init /\ [][Next]_vars

\* The prompt builder over the whole range of the controls: every setting of
\* the widgets is a state the form can be in when the button is pressed.
InitPrompt ==
  /\ num_axes \in SliderRange
  /\ style_preference \in AllStyles
  /\ color_scheme \in ColorsTried
  /\ api_key \in Keys
  /\ text_area \in Texts
  /\ selected_example \in ExamplesTried
  /\ session_state = EmptySession
  /\ pc = "idle"
  /\ request = <<>>
  /\ fetch_url = <<>>
  /\ shown = [Blank EXCEPT !.placeholder = TRUE]
  /\ msgs = {}
  /\ phase = "rerun"
  /\ before = <<>>
  /\ issued = 0

NextPrompt ==
  \/ Click
  \/ ProviderReturns
  \/ FetchReturns

SpecPrompt == InitPrompt /\ [][NextPrompt]_vars

----------------------------------------------------------------------------
\* Vocabulary of the properties.
RECURSIVE Value(_)
Value(digits) ==
  IF Len(digits) = 1 THEN digits[1]
  ELSE 10 * Value(SubSeq(digits, 1, Len(digits) - 1)) + digits[Len(digits)]

IsDecimal(digits) == Len(digits) >= 1 /\ \A i \in DOMAIN digits : digits[i] \in 0..9

PromptsAround ==
  {session_state.current_prompt[i] : i \in DOMAIN session_state.current_prompt}
  \cup {request[i].prompt : i \in DOMAIN request}

ResultFields(state) ==
  <<state.current_image_url, state.current_inspiration, state.current_num_axes>>

\* Empty or made of whitespace only.
IsBlank(s) == \A i \in DOMAIN s : s[i] \in Whitespace

Secrets == {k \in Keys : ~IsBlank(k)}

ValidSubmission == ~IsBlank(api_key) /\ ~IsBlank(user_inspiration)

RetrievalErrors == {"Failed to download image", "Error downloading image"}

GenerationFails == pc = "generating" /\ phase' = "generation_failed"

GenerationSucceeds == pc = "generating" /\ phase' = "generated"

\* C1: a submission whose provider call fails leaves the session state as it
\* was before the submission, the stored prompt included.
C1_FailedGenerationLeavesSession ==
  [][GenerationFails => session_state' = before[1]]_vars

\* C2: when the generation succeeds and the retrieval of the image that
\* follows fails, the session still holds the result it held before the
\* submission, not the reference, inspiration and axis count of this attempt.
C2_FailedDownloadKeepsPrevious ==
  [][(/\ pc = "fetching"
      /\ phase = "generated"
      /\ pc' = "idle"
      /\ msgs' \cap RetrievalErrors # {})
     => ResultFields(session_state') = ResultFields(before[1])]_vars

\* C3: a submission with an empty credential or an empty or whitespace-only
\* inspiration issues no network call, neither generation nor retrieval.
C3_InvalidSubmissionNoNetwork ==
  phase \in {"invalid_key", "invalid_text"} => pc \notin {"generating", "fetching"}

\* C4: every prompt built carries floor(360/N) as a decimal integer, with the
\* same N in the "N-fold rotational symmetry" and "N identical sections"
\* phrases, N being the slider's value, within 3..12 and so never 0; N = 8
\* gives 45 and N = 7 gives 51.
C4_DegreeInterval ==
  /\ num_axes \in min_value..max_value
  /\ \A p \in PromptsAround :
       /\ IsDecimal(p.degrees) /\ IsDecimal(p.fold)
       /\ p.fold = Digits(num_axes)
       /\ p.sections = p.fold
       /\ Value(p.degrees) * num_axes <= full_circle
       /\ full_circle < (Value(p.degrees) + 1) * num_axes
       /\ (num_axes = 8 => p.degrees = <<4, 5>>)
       /\ (num_axes = 7 => p.degrees = <<5, 1>>)

C4_Witness ==
  /\ pc = "generating"
  /\ num_axes = 7
  /\ request[1].prompt.degrees = <<5, 1>>

\* C5: once the page is drawn it shows the placeholder when no result is held,
\* and the image with its download link and details panel when one is held.
C5_ImageOrPlaceholder ==
  pc = "idle" =>
    IF HeldResult(session_state)
    THEN /\ ~shown.placeholder
         /\ shown.image # <<>> /\ shown.link # <<>> /\ shown.details # <<>>
    ELSE /\ shown.placeholder
         /\ shown.image = <<>> /\ shown.link = <<>> /\ shown.details = <<>>

\* C6, its parts.  A result is held only after a generation has succeeded;
\* the generating state is entered only from idle by a valid submission; a
\* successful run ends with the result of that run held.
C6_HeldOnlyAfterSuccess == HeldResult(session_state) => issued >= 1

C6_EnterGenerating ==
  (pc' = "generating" /\ pc # "generating")
    => pc = "idle" /\ ValidSubmission /\ UNCHANGED widgets

C6_SuccessEndsDisplaying ==
  GenerationSucceeds =>
    /\ pc' # "generating"
    /\ issued' = issued + 1
    /\ session_state' =
         [current_prompt |-> <<request[1].prompt>>,
          current_image_url |-> <<issued'>>,
          current_inspiration |-> <<user_inspiration>>,
          current_num_axes |-> <<num_axes>>]

C7_NoAutomaticRetry ==
  [][/\ GenerationFails => request' = <<>>
     /\ (/\ pc = "idle"
         /\ msgs \cap RetrievalErrors # {}
         /\ phase' = "rerun")
        => pc' # "fetching"]_vars

\* C8: the credential is held by no field of the session state and appears in
\* neither the prompt nor the download link; it is used for the client of the
\* provider call only.
C8_CredentialNotPersisted ==
  /\ \A k \in Secrets :
       /\ session_state.current_inspiration # <<k>>
       /\ \A p \in PromptsAround : p.inspiration # k
       /\ shown.caption # <<k>>
  /\ \A p \in PromptsAround : p.style \in AllStyles /\ p.color \in AllColors
  /\ \A i \in DOMAIN session_state.current_image_url :
       session_state.current_image_url[i] \in 1..issued
  /\ \A i \in DOMAIN session_state.current_num_axes :
       session_state.current_num_axes[i] \in SliderRange
  /\ \A i \in DOMAIN shown.link :
       \E u \in 1..issued, now \in Timestamps :
         shown.link[i] = create_download_link(ImageAt(u), <<"mandala_", now, ".png">>)
  /\ \A i \in DOMAIN request : request[i].client = [api_key |-> api_key]

C8_Witness ==
  /\ pc = "idle"
  /\ api_key \in Secrets
  /\ phase = "generated"
  /\ shown.link # <<>>
  /\ session_state.current_prompt # <<>>

\* C9: a provider request carries the prompt built from a validated
\* submission; a retrieval is issued only for a reference a successful
\* provider request returned; the download link is encoded from the bytes a
\* successful retrieval of the held reference returned.
C9_PipelineOrder ==
  /\ pc = "generating" <=> request # <<>>
  /\ \A i \in DOMAIN request :
       /\ ValidSubmission
       /\ request[i].prompt =
            create_mandala_prompt(user_inspiration, style_preference, color_scheme,
                                  num_axes)
  /\ pc = "fetching" <=> fetch_url # <<>>
  /\ \A i \in DOMAIN fetch_url :
       fetch_url[i] \in 1..issued /\ fetch_url = session_state.current_image_url
  /\ \A i \in DOMAIN shown.link :
       /\ HeldResult(session_state)
       /\ shown.image \in
            {<<r.content>> : r \in {x \in Responses(session_state.current_image_url) :
                                     ~x.raised /\ x.status_code = status_ok}}
       /\ shown.link[i].href[2] = b64encode(shown.image[1])

C9_Witness ==
  /\ pc = "idle"
  /\ shown.link # <<>>
  /\ issued >= 2
  /\ session_state.current_image_url = <<issued>>

\* C10: every item of the details panel shown with an image is the value the
\* submission that produced the image used, as embedded in the displayed prompt.
C10_DetailsMatchSubmission ==
  \A i \in DOMAIN shown.details :
    LET d == shown.details[i] IN
    /\ d.prompt # <<>>
    /\ d.inspiration = <<d.prompt[1].inspiration>>
    /\ d.style = d.prompt[1].style
    /\ d.color = d.prompt[1].color
    /\ d.axes = <<d.prompt[1].fold>>

====
